---- MODULE Spec2Model ----
(***************************************************************************)
(* State-machine model of the Digital Twin backend (src/app.py) and of its *)
(* HVAC advisory module (src/predict_hvac.py).                             *)
(*                                                                         *)
(* Threads: one HTTP client issuing requests one at a time (the Flask      *)
(* handlers), and the process_frame worker started by /api/initialize.     *)
(* The worker and the handlers share tracking_state without a lock, so the *)
(* worker's tick and the start/stop handlers are split into the steps at   *)
(* which the other thread can run.  Time is in whole seconds; lengths are  *)
(* in decimetres; temperatures in tenths of a degree.                      *)
(***************************************************************************)
EXTENDS Integers, Sequences, FiniteSets, TLC

\* ------------------------------------------------------------------ bounds
\* The value of time.time() when the model starts (any value >= 300 behaves
\* alike: the timestamps it is compared with start at 0).
StartTime == 300
MaxFrames == 2
MaxWorkers == 2
\* Seconds of wall-clock time explored by Spec.
Horizon == 3
\* Seconds of wall-clock time explored by SpecHvac, in steps of HvacStep.
HvacHorizon == 120
HvacStep == 30
\* Largest occupancy passed to predict_hvac_action by SpecHvac.
MaxOccupancy == 1

\* ------------------------------------------------------- program constants
None == -1
Infinity == 1000000
covid_bodies == 12
lab_capacity == 30
cpa_covid_bodies == 25
cpa_lab_capacity == 30
cpa_phone_threshold == 40
phone_covid_min_bodies == 0
phone_covid_threshold == 50
documented_covid_bodies == 12
min_distance_dm == 10
phone_y_threshold == 40
hvac_update_interval == 300
CACHE_DURATION == 60
target_temp10 == 250
heat_per_person10 == 3

Max(a, b) == IF a >= b THEN a ELSE b
Min(a, b) == IF a <= b THEN a ELSE b
Abs(a) == IF a < 0 THEN 0 - a ELSE a

VARIABLES
  features, registered_students, is_paused, is_lecture_active,
  lecture_start_time, tracked_bodies, att_max, att_min, attendance,
  num_bodies, alerts, report, hvac, zed, threads,
  wpc, bodies, num, walerts, wnow, last_hvac_update,
  cpc, response, now, sensor_cache, weather_cache, hvac_ret,
  callers, sensor_data_from

vars == <<features, registered_students, is_paused, is_lecture_active,
          lecture_start_time, tracked_bodies, att_max, att_min, attendance,
          num_bodies, alerts, report, hvac, zed, threads,
          wpc, bodies, num, walerts, wnow, last_hvac_update,
          cpc, response, now, sensor_cache, weather_cache, hvac_ret,
          callers, sensor_data_from>>

\* groups used in UNCHANGED clauses
configVars == <<features, registered_students>>
sessionVars == <<is_lecture_active, lecture_start_time, tracked_bodies, att_max, att_min>>
publishedVars == <<attendance, num_bodies, alerts>>
workerVars == <<wpc, bodies, num, walerts, wnow, last_hvac_update>>
hvacVars == <<sensor_cache, weather_cache, hvac_ret, callers, sensor_data_from>>

\* ------------------------------------------------------ detection snapshots
\* A keypoint is an indexable row (shape "idx", what the SDK's numpy array
\* gives), a labelled record without indexing (shape "attr"), both ("both"),
\* or a value that is neither (shape "bad", structurally invalid).
Kp(sh, yy) == [shape |-> sh, y |-> yy]
Body(i, x, k) == [id |-> i, pos |-> <<x, 0, 0>>, kp |-> k]

\* body 1: nose and neck 20 px apart; body 2: 100 px apart, 5 dm from body 1;
\* body 3: a single keypoint, far away; BodyAttr: body 2 with labelled records.
Body1 == Body(1, 0, <<Kp("idx", 100), Kp("idx", 120)>>)
Body2 == Body(2, 5, <<Kp("idx", 100), Kp("idx", 200)>>)
Body3 == Body(3, 40, <<Kp("idx", 100)>>)
BodyAttr == Body(2, 5, <<Kp("attr", 100), Kp("attr", 200)>>)

\* The body lists retrieve_bodies can deliver to the worker.
Snapshots == { <<>>, <<Body1, Body2>>, <<Body1, Body2, Body3>>,
               <<Body2, Body3>>, <<BodyAttr>> }

\* Snapshots for the alert evaluators: crowds around the COVID limit, bodies
\* placed in three dimensions, and the keypoint shapes.
BodyAt(i, p, k) == [id |-> i, pos |-> p, kp |-> k]
Reverse(sq) == [i \in 1..Len(sq) |-> sq[Len(sq) + 1 - i]]

\* n bodies in a row, 2 m apart, one keypoint each
Far(n) == [i \in 1..n |-> Body(i, 20 * i, <<Kp("idx", 100)>>)]
\* one body more than the COVID limit, the last three within 1 m of each other
Crowd == [i \in 1..(covid_bodies + 1) |->
            Body(i, IF i < covid_bodies THEN 20 * i
                    ELSE 20 * (covid_bodies - 1) + 4 * (i - covid_bodies + 1),
                 <<Kp("idx", 100)>>)]
\* bodies 1 and 2 exactly 1 m apart, body 3 within 1 m of both
Space3 == << BodyAt(1, <<0, 0, 0>>, <<Kp("idx", 100)>>),
             BodyAt(2, <<6, 0, 8>>, <<Kp("idx", 100)>>),
             BodyAt(3, <<6, 0, 1>>, <<Kp("idx", 100)>>) >>
BodyBoth == Body(1, 0, <<Kp("both", 100), Kp("both", 120)>>)
BodyAttrNear == Body(1, 0, <<Kp("attr", 100), Kp("attr", 120)>>)
BodyBad == Body(2, 5, <<Kp("bad", 0), Kp("bad", 0)>>)
\* the crowd with body 1 in front, its nose and neck 20 px apart
CrowdPhone == [Crowd EXCEPT ![1] = Body1]

AlertSnapshots ==
  { <<>>, Far(covid_bodies), Far(covid_bodies + 1), Reverse(Far(covid_bodies + 1)),
    Crowd, Reverse(Crowd), Space3,
    <<Body1, Body2>>, <<Body2, Body1>>, <<Body3>>, <<BodyBoth, Body2>>,
    <<BodyAttrNear>>, <<Body1, BodyBad>>, CrowdPhone }

\* ------------------------------------------------------------------ alerts
OccupancyAlert == [kind |-> "Occupancy", arg |-> covid_bodies]
ProximityAlert == [kind |-> "Proximity", arg |-> 0]
PhoneAlert(bid) == [kind |-> "Behavioral", arg |-> bid]

Dist2(p, q) == (p[1] - q[1]) * (p[1] - q[1]) + (p[2] - q[2]) * (p[2] - q[2])
               + (p[3] - q[3]) * (p[3] - q[3])

\* np.linalg.norm(p - q) < 1.0, on squared decimetres
TooClose(p, q) == Dist2(p, q) < min_distance_dm * min_distance_dm

\* variant: only neighbours in the list are compared
ClosePairs_Adjacent(bl) == { pr \in (1..Len(bl)) \X (1..Len(bl)) :
                               pr[2] = pr[1] + 1 /\ TooClose(bl[pr[1]].pos, bl[pr[2]].pos) }

ClosePairs(bl) == { pr \in (1..Len(bl)) \X (1..Len(bl)) :
                      pr[1] < pr[2] /\ TooClose(bl[pr[1]].pos, bl[pr[2]].pos) }

\* variant: the occupancy alert is raised at the limit already
CovidAlerts_AtLimit(bl) ==
  (IF Len(bl) >= covid_bodies THEN <<OccupancyAlert>> ELSE <<>>)
  \o [k \in 1..Cardinality(ClosePairs(bl)) |-> ProximityAlert]

\* app.py 154-162: the occupancy alert, then one alert per close pair
CovidAlerts(bl) ==
  (IF Len(bl) > covid_bodies THEN <<OccupancyAlert>> ELSE <<>>)
  \o [k \in 1..Cardinality(ClosePairs(bl)) |-> ProximityAlert]

\* getattr(kp[i], 'y', kp[i][1]) evaluates kp[i][1] before the lookup, so it
\* raises on a keypoint that cannot be indexed.
KeypointRaises(k) == k.shape \in {"attr", "bad"}
BodyPhoneRaises(b) == Len(b.kp) > 1 /\ (KeypointRaises(b.kp[1]) \/ KeypointRaises(b.kp[2]))
PhoneRaises(bl) == \E i \in 1..Len(bl) : BodyPhoneRaises(bl[i])

BodyPhoneAlert(b) == Len(b.kp) > 1 /\ Abs(b.kp[1].y - b.kp[2].y) < phone_y_threshold

RECURSIVE PhoneAlerts(_)
\* app.py 165-172: every body of the list is inspected, in order
PhoneAlerts(bl) ==
  IF bl = <<>> THEN <<>>
  ELSE (IF BodyPhoneAlert(Head(bl)) THEN <<PhoneAlert(Head(bl).id)>> ELSE <<>>)
       \o PhoneAlerts(Tail(bl))

\* variant: the covid evaluator runs whatever the configuration
FrameAlerts_CovidAlways(bl, f) ==
  CovidAlerts(bl)
  \o (IF f.phone /\ bl # <<>> THEN PhoneAlerts(bl) ELSE <<>>)

\* the alert list of one frame (app.py 150-172)
FrameAlerts(bl, f) ==
  (IF f.covid THEN CovidAlerts(bl) ELSE <<>>)
  \o (IF f.phone /\ bl # <<>> THEN PhoneAlerts(bl) ELSE <<>>)

FrameRaises(bl, f) == f.phone /\ bl # <<>> /\ PhoneRaises(bl)

\* -------------------------------------------------------------- attendance
NA == [status |-> "N/A", present |-> None, registered |-> None]

\* app.py 189-194, on the exact quotient present / registered
Classify(count, registered) ==
  IF 3 * count < registered THEN "Poor"
  ELSE IF 3 * count <= 2 * registered THEN "Fair"
  ELSE "Good"

\* the quotient used by app.py 188
RatioCount(present, attmax) == present

IndexOf(tb, bid) == CHOOSE i \in 1..Len(tb) : tb[i].id = bid
Tracked(tb, bid) == \E i \in 1..Len(tb) : tb[i].id = bid

\* variant: a body seen again is entered anew
TrackOne_ResetFirst(tb, bid, t) ==
  IF Tracked(tb, bid)
  THEN [tb EXCEPT ![IndexOf(tb, bid)] = [id |-> bid, first |-> t, last |-> t]]
  ELSE Append(tb, [id |-> bid, first |-> t, last |-> t])

\* app.py 182-185 for one body: insert on first sight, then stamp "last"
TrackOne(tb, bid, t) ==
  IF Tracked(tb, bid)
  THEN [tb EXCEPT ![IndexOf(tb, bid)].last = t]
  ELSE Append(tb, [id |-> bid, first |-> t, last |-> t])

\* variant: only the first body of the list is entered
TrackAll_FirstOnly(tb, bl, t) ==
  IF bl = <<>> THEN tb ELSE TrackOne(tb, Head(bl).id, t)

RECURSIVE TrackAll(_, _, _)
\* app.py 181-185: the loop over the body list
TrackAll(tb, bl, t) ==
  IF bl = <<>> THEN tb ELSE TrackAll(TrackOne(tb, Head(bl).id, t), Tail(bl), t)

\* ------------------------------------------------------------------ report
Line(key, i, v) == [k |-> key, id |-> i, v |-> v]
BodyLine(rec) == Line("Body", rec.id, rec.last - rec.first)

\* variant: a body's duration runs up to the time of the report
MakeReport_UntilStop(t, start, amax, amin, reg, tb) ==
  << Line("Lecture Duration", None, t - start),
     Line("Max attendees", None, amax),
     Line("Min attendees", None, amin),
     Line("Registered Students", None, reg) >>
  \o [i \in 1..Len(tb) |-> Line("Body", tb[i].id, t - tb[i].first)]

\* app.py 318-331: the report lines; a dict iterates in insertion order
MakeReport(t, start, amax, amin, reg, tb) ==
  << Line("Lecture Duration", None, t - start),
     Line("Max attendees", None, amax),
     Line("Min attendees", None, amin),
     Line("Registered Students", None, reg) >>
  \o [i \in 1..Len(tb) |-> BodyLine(tb[i])]

\* ------------------------------------------------ HVAC advisory (predict_hvac)
SensorData(t, h) == [temperature |-> t, humidity |-> h, sound_level |-> 50,
                     airquality |-> 50, lightlevel |-> 50]
\* {var.lower(): 0 for var in VARIABLES}
SensorDefault == [temperature |-> 0, humidity |-> 0, sound_level |-> 0,
                  airquality |-> 0, lightlevel |-> 0]
\* {"temp": 25, "time": "N/A"}
WeatherDefault == [temp |-> 250, time |-> "N/A"]

\* What the Arduino cloud can answer: two readings, and one whose
\* Temperature property is missing (get_variable_value returns None).
SensorReadings == { SensorData(270, 50), SensorData(220, 50), SensorData(None, 50) }
WeatherReadings == { [temp |-> 300, time |-> "12:00"], [temp |-> 100, time |-> "12:30"] }

Failed == [ok |-> FALSE, data |-> <<>>]
Fetched(d) == [ok |-> TRUE, data |-> <<d>>]
\* outcomes of one attempt to fetch: the request raises, or delivers a reading
SensorOutcomes == {Failed} \cup { Fetched(d) : d \in SensorReadings }
WeatherOutcomes == {Failed} \cup { Fetched(d) : d \in WeatherReadings }

EmptyCache == [timestamp |-> 0, data |-> <<>>]

\* the cache test of get_cached_sensor_data / get_cached_weather_data
CacheHit(c, t) == t - c.timestamp < CACHE_DURATION /\ c.data # <<>>

\* variant: the cache test is missing, every call fetches
GetCached_AlwaysFetch(c, t, o, default) ==
  IF o.ok
  THEN [value |-> o.data[1], cache |-> [timestamp |-> t, data |-> o.data], fetch |-> TRUE]
  ELSE [value |-> IF c.data # <<>> THEN c.data[1] ELSE default, cache |-> c, fetch |-> TRUE]

\* One call of a caching getter at time t with fetch outcome o: the value
\* returned, the cache afterwards, and whether a fetch was attempted.
GetCached(c, t, o, default) ==
  IF CacheHit(c, t)
  THEN [value |-> c.data[1], cache |-> c, fetch |-> FALSE]
  ELSE IF o.ok
  THEN [value |-> o.data[1], cache |-> [timestamp |-> t, data |-> o.data], fetch |-> TRUE]
  ELSE [value |-> IF c.data # <<>> THEN c.data[1] ELSE default, cache |-> c, fetch |-> TRUE]

\* variant: a fetch that fails stamps the cache with the time of the call
get_cached_sensor_data_StampsFailure(c, t, o) ==
  IF CacheHit(c, t) \/ o.ok THEN GetCached(c, t, o, SensorDefault)
  ELSE [value |-> IF c.data # <<>> THEN c.data[1] ELSE SensorDefault,
        cache |-> [timestamp |-> t, data |-> c.data], fetch |-> TRUE]

get_cached_sensor_data(c, t, o) == GetCached(c, t, o, SensorDefault)
get_cached_weather_data(c, t, o) == GetCached(c, t, o, WeatherDefault)

\* round(current_temp - 25.0 + occupancy * 0.3, 1), in tenths of a degree
compute_adjusted_diff(current_temp, occupancy) ==
  current_temp - target_temp10 + occupancy * heat_per_person10

\* The trained classifier: some fixed function of the sample.
ModelPredict(sd, external_temp, occupancy) ==
  IF occupancy = 0 THEN "IDLE"
  ELSE IF compute_adjusted_diff(sd.temperature, occupancy) > 0 THEN "COOL"
  ELSE IF compute_adjusted_diff(sd.temperature, occupancy) < 0 THEN "HEAT"
  ELSE IF external_temp > target_temp10 THEN "FAN"
  ELSE "MAINTAIN"

\* _model.predict raises on a sample holding None
PredictRaises(sd) == sd.temperature = None

Suggestion(txt, d, ppl) == [text |-> txt, by |-> d, ppl |-> ppl]
HvacNA == Suggestion("N/A", 0, 0)

\* predict_hvac.py 158-172
Suggest(action, occupancy, adj_diff) ==
  IF action = "COOL" /\ adj_diff > 0 THEN Suggestion("COOL", Abs(adj_diff), occupancy)
  ELSE IF action = "HEAT" /\ adj_diff < 0 THEN Suggestion("HEAT", Abs(adj_diff), occupancy)
  ELSE IF action = "MAINTAIN" THEN Suggestion("MAINTAIN", 0, 0)
  ELSE IF action = "FAN" THEN Suggestion("FAN", 0, 0)
  ELSE IF action = "IDLE" THEN Suggestion("IDLE", 0, 0)
  ELSE Suggestion("MONITOR", 0, 0)

\* predict_hvac.py 183-189
ErrorResult == [action |-> "ERROR", suggestion |-> Suggestion("ERROR", 0, 0),
                sensor_data |-> <<>>, external_temp |-> 250, local_time |-> "N/A"]

\* the dict returned by predict_hvac_action for the data it obtained
PredictResult(sd, wd, occupancy) ==
  IF PredictRaises(sd) THEN ErrorResult
  ELSE [action |-> ModelPredict(sd, wd.temp, occupancy),
        suggestion |-> Suggest(ModelPredict(sd, wd.temp, occupancy), occupancy,
                               compute_adjusted_diff(sd.temperature, occupancy)),
        sensor_data |-> <<sd>>, external_temp |-> wd.temp, local_time |-> wd.time]

\* variant: the weather getter tests the age of the sensor cache
predict_hvac_action_SharedTtl(occupancy, t, so, wo, sc, wc) ==
  [sensor_cache |-> get_cached_sensor_data(sc, t, so).cache,
   weather_cache |->
     IF t - sc.timestamp < CACHE_DURATION /\ wc.data # <<>> THEN wc
     ELSE get_cached_weather_data(EmptyCache, t, wo).cache,
   ret |-> [called |-> TRUE, issued |-> t, occupancy |-> occupancy,
            result |-> PredictResult(get_cached_sensor_data(sc, t, so).value,
                                     get_cached_weather_data(wc, t, wo).value,
                                     occupancy),
            sensor_fetch |-> get_cached_sensor_data(sc, t, so).fetch,
            weather_fetch |-> get_cached_weather_data(wc, t, wo).fetch]]

\* One call predict_hvac_action(occupancy) at time t, the two fetches ending
\* as so and wo: the caches afterwards and the record of the call (when it
\* was issued, for how many people, what it returned and what it fetched).
predict_hvac_action(occupancy, t, so, wo, sc, wc) ==
  [sensor_cache |-> get_cached_sensor_data(sc, t, so).cache,
   weather_cache |-> get_cached_weather_data(wc, t, wo).cache,
   ret |-> [called |-> TRUE, issued |-> t, occupancy |-> occupancy,
            result |-> PredictResult(get_cached_sensor_data(sc, t, so).value,
                                     get_cached_weather_data(wc, t, wo).value,
                                     occupancy),
            sensor_fetch |-> get_cached_sensor_data(sc, t, so).fetch,
            weather_fetch |-> get_cached_weather_data(wc, t, wo).fetch]]

NoCall == [called |-> FALSE, issued |-> 0, occupancy |-> 0, result |-> ErrorResult,
           sensor_fetch |-> FALSE, weather_fetch |-> FALSE]

\* The threads spawned by the 'h' key that can be inside predict_hvac_action
\* at one time, and the locals of one of them: where it stands, its
\* occupancy argument, its current_time, its sensor_data and whether it
\* attempted a fetch.
HvacThreads == {1, 2}
NoCaller == [pc |-> "idle", occupancy |-> 0, current_time |-> 0, sensor_data |-> <<>>,
             fetch |-> FALSE]

\* ------------------------------------------------------------ request bodies
Keys == {"covid", "phone", "attendance", "registered_students"}
\* registered_students values a client sends: zero, a small class, the spec's
\* example class, one above the COVID limit, one above the lab capacity
RegInputs == {0, 3, 10, 13, 31}

\* A JSON body: the keys it holds and their values (default where absent).
JsonBodies ==
  { d \in [keys : SUBSET Keys, covid : BOOLEAN, phone : BOOLEAN,
           attendance : BOOLEAN, registered_students : RegInputs] :
      /\ ("covid" \notin d.keys => d.covid = FALSE)
      /\ ("phone" \notin d.keys => d.phone = FALSE)
      /\ ("attendance" \notin d.keys => d.attendance = FALSE)
      /\ ("registered_students" \notin d.keys => d.registered_students = 0) }

Reply(code, text) == [status |-> code, body |-> text]

\* ---------------------------------------------------------------------- Init
Init ==
  /\ features = [covid |-> FALSE, phone |-> FALSE, attendance |-> FALSE]
  /\ registered_students = None
  /\ is_paused = FALSE
  /\ is_lecture_active = FALSE
  /\ lecture_start_time = None
  /\ tracked_bodies = <<>>
  /\ att_max = 0
  /\ att_min = Infinity
  /\ attendance = NA
  /\ num_bodies = 0
  /\ alerts = <<>>
  /\ report = <<>>
  /\ hvac = HvacNA
  /\ zed = "none"
  /\ threads = 0
  /\ wpc = "grab"
  /\ bodies = <<>>
  /\ num = 0
  /\ walerts = <<>>
  /\ wnow = 0
  /\ last_hvac_update = 0
  /\ cpc = "idle"
  /\ response = Reply(0, "")
  /\ now = StartTime
  /\ sensor_cache = EmptyCache
  /\ weather_cache = EmptyCache
  /\ hvac_ret = NoCall
  /\ callers = [th \in HvacThreads |-> NoCaller]
  /\ sensor_data_from = 0

\* --------------------------------------------------------------- environment
\* wall-clock time passes while no worker runs (the worker's own passage of
\* time is its sleep, see w_sleep)
AdvanceClock(step, horizon) ==
  /\ threads = 0
  /\ now + step <= StartTime + horizon
  /\ now' = now + step
  /\ UNCHANGED <<configVars, sessionVars, publishedVars, workerVars, hvacVars,
                 is_paused, report, hvac, zed, threads, cpc, response>>

\* ----------------------------------------------------------- POST /initialize
\* the registered_students read by data.get("registered_students")
InitRegistered(data) ==
  IF "registered_students" \in data.keys THEN data.registered_students ELSE None

InitFeatures(data) ==
  [covid |-> data.covid, phone |-> data.phone, attendance |-> data.attendance]

\* app.py 242-253: the message of the rejection, "" when the body is accepted
InitRejection(data) ==
  IF ~data.attendance THEN ""
  ELSE IF InitRegistered(data) = None \/ InitRegistered(data) = 0
  THEN "registered_students required when attendance is enabled"
  ELSE IF data.covid /\ InitRegistered(data) > covid_bodies
  THEN "registered_students exceeds COVID max"
  ELSE IF ~data.covid /\ InitRegistered(data) > lab_capacity
  THEN "registered_students exceeds capacity"
  ELSE ""

\* Whether zed.open succeeds is the device's matter. In the specifications
\* with one worker it succeeds only while no worker has been started.
CameraCanOpen == threads = 0

initialize(data, cam_ok) ==
    /\ cpc = "idle"
    /\ IF data.keys = {}
       THEN /\ response' = Reply(400, "No data received")
            /\ UNCHANGED <<configVars, zed, threads>>
       ELSE /\ features' = InitFeatures(data)
            /\ IF InitRejection(data) # ""
               THEN /\ response' = Reply(400, InitRejection(data))
                    /\ UNCHANGED <<registered_students, zed, threads>>
               ELSE /\ registered_students' =
                         IF data.attendance THEN InitRegistered(data)
                         ELSE registered_students
                    /\ zed' = IF cam_ok THEN "open" ELSE "closed"
                    /\ threads' = IF cam_ok THEN threads + 1 ELSE threads
                    /\ response' = IF cam_ok THEN Reply(200, "initialized")
                                   ELSE Reply(500, "Failed to initialize camera")
    /\ UNCHANGED <<sessionVars, publishedVars, workerVars, hvacVars,
                   is_paused, report, hvac, cpc, now>>

\* ------------------------------------------------------ POST /update_features
update_features(data) ==
    /\ cpc = "idle"
    /\ IF "phone" \notin data.keys
       THEN /\ response' = Reply(400, "phone_detection/phone value is required")
            /\ UNCHANGED configVars
       ELSE /\ features' =
                 [phone |-> data.phone,
                  covid |-> IF "covid" \in data.keys THEN data.covid ELSE features.covid,
                  attendance |-> IF "attendance" \in data.keys THEN data.attendance
                                 ELSE features.attendance]
            /\ registered_students' =
                 IF "registered_students" \in data.keys THEN data.registered_students
                 ELSE registered_students
            /\ response' = Reply(200, "success")
    /\ UNCHANGED <<sessionVars, publishedVars, workerVars, hvacVars,
                   is_paused, report, hvac, zed, threads, cpc, now>>

\* ------------------------------------------------------------ GET /api/status
\* app.py 272-283: the handler reads num_bodies, alerts, hvac, is_paused and
\* attendance as they are and returns them
get_status ==
  /\ cpc = "idle"
  /\ response' = Reply(200, "status")
  /\ UNCHANGED <<configVars, sessionVars, publishedVars, workerVars, hvacVars,
                 is_paused, report, hvac, zed, threads, cpc, now>>

\* ------------------------------------------------------ POST /pause, /resume
pause ==
  /\ cpc = "idle"
  /\ is_paused' = TRUE
  /\ response' = Reply(200, "paused")
  /\ UNCHANGED <<configVars, sessionVars, publishedVars, workerVars, hvacVars,
                 report, hvac, zed, threads, cpc, now>>

resume ==
  /\ cpc = "idle"
  /\ is_paused' = FALSE
  /\ response' = Reply(200, "resumed")
  /\ UNCHANGED <<configVars, sessionVars, publishedVars, workerVars, hvacVars,
                 report, hvac, zed, threads, cpc, now>>

\* ------------------------------------------------------- POST /start_lecture
\* variant: the check for a lecture in progress is missing
start_lecture_NoActiveCheck ==
  /\ cpc = "idle"
  /\ IF ~features.attendance
     THEN /\ response' = Reply(400, "Attendance tracking not enabled")
          /\ UNCHANGED <<is_lecture_active, cpc, lecture_start_time>>
     ELSE /\ is_lecture_active' = TRUE
          /\ lecture_start_time' = now
          /\ cpc' = "start_305"
          /\ UNCHANGED response
  /\ UNCHANGED <<configVars, tracked_bodies, att_max, att_min,
                 publishedVars, workerVars, hvacVars, is_paused, report, hvac,
                 zed, threads, now>>

\* app.py 297-303: the two checks, then the flag is raised
start_lecture ==
  /\ cpc = "idle"
  /\ IF ~features.attendance
     THEN /\ response' = Reply(400, "Attendance tracking not enabled")
          /\ UNCHANGED <<is_lecture_active, cpc>>
     ELSE IF is_lecture_active
     THEN /\ response' = Reply(400, "Lecture already in progress")
          /\ UNCHANGED <<is_lecture_active, cpc>>
     ELSE /\ is_lecture_active' = TRUE
          /\ cpc' = "start_304"
          /\ UNCHANGED response
  /\ UNCHANGED <<configVars, lecture_start_time, tracked_bodies, att_max, att_min,
                 publishedVars, workerVars, hvacVars, is_paused, report, hvac,
                 zed, threads, now>>

\* app.py 304
start_lecture_304 ==
  /\ cpc = "start_304"
  /\ lecture_start_time' = now
  /\ cpc' = "start_305"
  /\ UNCHANGED <<configVars, is_lecture_active, tracked_bodies, att_max, att_min,
                 publishedVars, workerVars, hvacVars, is_paused, report, hvac,
                 zed, threads, response, now>>

\* variant: the records of the lecture before are kept
start_lecture_305_KeepRecords ==
  /\ cpc = "start_305"
  /\ cpc' = "start_306"
  /\ UNCHANGED <<configVars, is_lecture_active, lecture_start_time, tracked_bodies,
                 att_max, att_min, publishedVars, workerVars, hvacVars, is_paused,
                 report, hvac, zed, threads, response, now>>

\* app.py 305
start_lecture_305 ==
  /\ cpc = "start_305"
  /\ tracked_bodies' = <<>>
  /\ cpc' = "start_306"
  /\ UNCHANGED <<configVars, is_lecture_active, lecture_start_time, att_max, att_min,
                 publishedVars, workerVars, hvacVars, is_paused, report, hvac,
                 zed, threads, response, now>>

\* app.py 306
start_lecture_306 ==
  /\ cpc = "start_306"
  /\ att_max' = 0
  /\ cpc' = "start_307"
  /\ UNCHANGED <<configVars, is_lecture_active, lecture_start_time, tracked_bodies,
                 att_min, publishedVars, workerVars, hvacVars, is_paused, report,
                 hvac, zed, threads, response, now>>

\* app.py 307-308
start_lecture_307 ==
  /\ cpc = "start_307"
  /\ att_min' = Infinity
  /\ cpc' = "idle"
  /\ response' = Reply(200, "lecture started")
  /\ UNCHANGED <<configVars, is_lecture_active, lecture_start_time, tracked_bodies,
                 att_max, publishedVars, workerVars, hvacVars, is_paused, report,
                 hvac, zed, threads, now>>

\* -------------------------------------------------------- POST /stop_lecture
\* variant: the check for an active lecture is missing
stop_lecture_NoActiveCheck ==
  /\ cpc = "idle"
  /\ is_lecture_active' = FALSE
  /\ report' = MakeReport(now, lecture_start_time, att_max, att_min,
                          registered_students, tracked_bodies)
  /\ response' = Reply(200, "lecture stopped")
  /\ UNCHANGED <<configVars, lecture_start_time, tracked_bodies, att_max, att_min,
                 publishedVars, workerVars, hvacVars, is_paused, hvac,
                 zed, threads, now, cpc>>

\* app.py 312-315: the check, then the flag is lowered
stop_lecture ==
  /\ cpc = "idle"
  /\ IF ~is_lecture_active
     THEN /\ response' = Reply(400, "No active lecture")
          /\ UNCHANGED <<is_lecture_active, cpc>>
     ELSE /\ is_lecture_active' = FALSE
          /\ cpc' = "stop_318"
          /\ UNCHANGED response
  /\ UNCHANGED <<configVars, lecture_start_time, tracked_bodies, att_max, att_min,
                 publishedVars, workerVars, hvacVars, is_paused, report, hvac,
                 zed, threads, now>>

\* app.py 318-337: the report is built and stored
stop_lecture_318 ==
  /\ cpc = "stop_318"
  /\ report' = MakeReport(now, lecture_start_time, att_max, att_min,
                          registered_students, tracked_bodies)
  /\ cpc' = "idle"
  /\ response' = Reply(200, "lecture stopped")
  /\ UNCHANGED <<configVars, sessionVars, publishedVars, workerVars, hvacVars,
                 is_paused, hvac, zed, threads, now>>

\* ------------------------------------------------------------- GET /api/hvac
get_hvac(so, wo) ==
    LET call == predict_hvac_action(num_bodies, now, so, wo, sensor_cache, weather_cache)
    IN /\ cpc = "idle"
       /\ sensor_cache' = call.sensor_cache
       /\ weather_cache' = call.weather_cache
       /\ hvac_ret' = call.ret
       /\ sensor_data_from' = call.sensor_cache.timestamp
       /\ hvac' = call.ret.result.suggestion
       /\ response' = Reply(200, "hvac")
       /\ UNCHANGED callers
       /\ UNCHANGED <<configVars, sessionVars, publishedVars, workerVars,
                      is_paused, report, zed, threads, cpc, now>>

\* all_dash.py 148-153: the 'h' key fetches an advisory for the current count
fetch_and_update_hvac(occupancy, so, wo) ==
    LET call == predict_hvac_action(occupancy, now, so, wo, sensor_cache, weather_cache)
    IN /\ sensor_cache' = call.sensor_cache
       /\ weather_cache' = call.weather_cache
       /\ hvac_ret' = call.ret
       /\ sensor_data_from' = call.sensor_cache.timestamp
       /\ hvac' = call.ret.result.suggestion
       /\ UNCHANGED <<configVars, sessionVars, publishedVars, workerVars,
                      is_paused, report, zed, threads, cpc, response, now, callers>>

\* ------------------------------------- predict_hvac_action, statement by
\* statement: the calls of two 'h' key threads (all_dash.py 288-290) run
\* get_cached_sensor_data concurrently, without a lock
otherVars == <<configVars, sessionVars, publishedVars, workerVars,
               is_paused, report, zed, threads, cpc, response>>

\* all_dash.py 288-290, predict_hvac.py 59: the thread starts and reads the clock
sensor_59(th, occupancy) ==
    /\ callers[th].pc = "idle"
    /\ callers' = [callers EXCEPT ![th] = [pc |-> "sensor_60", occupancy |-> occupancy,
                                           current_time |-> now, sensor_data |-> <<>>,
                                           fetch |-> FALSE]]
    /\ UNCHANGED <<otherVars, now, hvac, sensor_cache, weather_cache, hvac_ret,
                   sensor_data_from>>

\* predict_hvac.py 60-61: the cache test
sensor_60(th) ==
  /\ callers[th].pc = "sensor_60"
  /\ callers' = [callers EXCEPT ![th] =
                   IF CacheHit(sensor_cache, callers[th].current_time)
                   THEN [@ EXCEPT !.pc = "predict_140", !.sensor_data = sensor_cache.data]
                   ELSE [@ EXCEPT !.pc = "sensor_64"]]
  /\ UNCHANGED <<otherVars, now, hvac, sensor_cache, weather_cache, hvac_ret,
                 sensor_data_from>>

\* predict_hvac.py 63-68 and 73-75: the requests deliver a reading or raise
sensor_64(th, so) ==
    /\ callers[th].pc = "sensor_64"
    /\ callers' = [callers EXCEPT ![th] =
                     IF so.ok
                     THEN [@ EXCEPT !.pc = "sensor_70", !.fetch = TRUE,
                                    !.sensor_data = so.data]
                     ELSE [@ EXCEPT !.pc = "predict_140", !.fetch = TRUE,
                                    !.sensor_data = IF sensor_cache.data # <<>>
                                                    THEN sensor_cache.data
                                                    ELSE <<SensorDefault>>]]
    /\ UNCHANGED <<otherVars, now, hvac, sensor_cache, weather_cache, hvac_ret,
                   sensor_data_from>>

\* predict_hvac.py 70: the reading is stored
sensor_70(th) ==
  /\ callers[th].pc = "sensor_70"
  /\ sensor_cache' = [sensor_cache EXCEPT !.data = callers[th].sensor_data]
  /\ sensor_data_from' = callers[th].current_time
  /\ callers' = [callers EXCEPT ![th].pc = "sensor_71"]
  /\ UNCHANGED <<otherVars, now, hvac, weather_cache, hvac_ret>>

\* predict_hvac.py 71-72: the timestamp is stored
sensor_71(th) ==
  /\ callers[th].pc = "sensor_71"
  /\ sensor_cache' = [sensor_cache EXCEPT !.timestamp = callers[th].current_time]
  /\ callers' = [callers EXCEPT ![th].pc = "predict_140"]
  /\ UNCHANGED <<otherVars, now, hvac, weather_cache, hvac_ret, sensor_data_from>>

\* predict_hvac.py 140-189, all_dash.py 151: the weather data, the prediction
\* and the suggestion handed to the dashboard
predict_140(th, wo) ==
    LET w == get_cached_weather_data(weather_cache, now, wo)
    IN /\ callers[th].pc = "predict_140"
       /\ weather_cache' = w.cache
       /\ hvac_ret' = [called |-> TRUE, issued |-> callers[th].current_time,
                       occupancy |-> callers[th].occupancy,
                       result |-> PredictResult(callers[th].sensor_data[1], w.value,
                                                callers[th].occupancy),
                       sensor_fetch |-> callers[th].fetch, weather_fetch |-> w.fetch]
       /\ hvac' = hvac_ret'.result.suggestion
       /\ callers' = [callers EXCEPT ![th] = NoCaller]
       /\ UNCHANGED <<otherVars, now, sensor_cache, sensor_data_from>>

\* ------------------------------------------------ the process_frame worker
\* The worker loop of app.py 137-219.  Its locals (num, alerts, now) and the
\* retrieved body list are read by this iteration only; they are cleared when
\* the iteration ends.  One iteration takes one second: the clock advances in
\* its sleep, and the worker stops when the explored time is used up.
TimeLeft == now < StartTime + Horizon

\* variant: the loop does not look at the pause flag
Paused_Never == FALSE

\* app.py 138: the test at the head of the loop
Paused == is_paused

\* app.py 138-140: a paused worker sleeps and looks again
w_paused ==
  /\ threads >= 1 /\ wpc = "grab"
  /\ Paused
  /\ TimeLeft
  /\ now' = now + 1
  /\ UNCHANGED <<configVars, sessionVars, publishedVars, workerVars, hvacVars,
                 is_paused, report, hvac, zed, threads, cpc, response>>

\* variant: a tick without a frame publishes an empty room
w_grab_failed_Publishes ==
  /\ threads >= 1 /\ wpc = "grab"
  /\ ~Paused
  /\ TimeLeft
  /\ wpc' = "sleep"
  /\ num_bodies' = 0
  /\ alerts' = <<>>
  /\ UNCHANGED <<configVars, sessionVars, attendance, hvacVars, bodies, num,
                 walerts, wnow, last_hvac_update, is_paused, report, hvac, zed,
                 threads, cpc, response, now>>

\* app.py 143-144, 214-215: grab fails (always on a camera that is not open)
w_grab_failed ==
  /\ threads >= 1 /\ wpc = "grab"
  /\ ~Paused
  /\ TimeLeft
  /\ wpc' = "sleep"
  /\ UNCHANGED <<configVars, sessionVars, publishedVars, hvacVars, bodies, num,
                 walerts, wnow, last_hvac_update, is_paused, report, hvac, zed,
                 threads, cpc, response, now>>

\* variant: the exception is not caught and ends the thread
w_grab_Uncaught(snapshot) ==
    /\ threads >= 1 /\ wpc = "grab"
    /\ ~Paused
    /\ TimeLeft
    /\ zed = "open"
    /\ bodies' = snapshot
    /\ num' = Len(snapshot)
    /\ wnow' = now
    /\ IF FrameRaises(snapshot, features)
       THEN /\ walerts' = <<>>
            /\ wpc' = "dead"
       ELSE /\ walerts' = FrameAlerts(snapshot, features)
            /\ wpc' = "att"
    /\ UNCHANGED <<configVars, sessionVars, publishedVars, hvacVars, last_hvac_update,
                   is_paused, report, hvac, zed, threads, cpc, response, now>>

\* app.py 143-172: a frame is grabbed, the bodies retrieved and the alerts
\* evaluated; an exception ends the tick (app.py 216-217)
w_grab(snapshot) ==
    /\ threads >= 1 /\ wpc = "grab"
    /\ ~Paused
    /\ TimeLeft
    /\ zed = "open"
    /\ bodies' = snapshot
    /\ num' = Len(snapshot)
    /\ wnow' = now
    /\ IF FrameRaises(snapshot, features)
       THEN /\ walerts' = <<>>
            /\ wpc' = "sleep"
       ELSE /\ walerts' = FrameAlerts(snapshot, features)
            /\ wpc' = "att"
    /\ UNCHANGED <<configVars, sessionVars, publishedVars, hvacVars, last_hvac_update,
                   is_paused, report, hvac, zed, threads, cpc, response, now>>

\* variant: the update does not look at the lecture flag
Observes_AnyTime == registered_students # None

\* app.py 175: whether this tick runs the attendance update
Observes == is_lecture_active /\ registered_students # None

\* variant: the maximum and minimum are the count of the last tick
w_att_LastCount ==
  /\ threads >= 1 /\ wpc = "att"
  /\ IF Observes
     THEN /\ att_max' = num
          /\ att_min' = num
          /\ wpc' = "track"
          /\ UNCHANGED attendance
     ELSE /\ attendance' = NA
          /\ wpc' = "hvac"
          /\ UNCHANGED <<att_max, att_min>>
  /\ UNCHANGED <<configVars, is_lecture_active, lecture_start_time, tracked_bodies,
                 num_bodies, alerts, hvacVars, bodies, num, walerts, wnow,
                 last_hvac_update, is_paused, report, hvac, zed, threads, cpc,
                 response, now>>

\* app.py 175-178 and 197-198
w_att ==
  /\ threads >= 1 /\ wpc = "att"
  /\ IF Observes
     THEN /\ att_max' = Max(att_max, num)
          /\ att_min' = Min(att_min, num)
          /\ wpc' = "track"
          /\ UNCHANGED attendance
     ELSE /\ attendance' = NA
          /\ wpc' = "hvac"
          /\ UNCHANGED <<att_max, att_min>>
  /\ UNCHANGED <<configVars, is_lecture_active, lecture_start_time, tracked_bodies,
                 num_bodies, alerts, hvacVars, bodies, num, walerts, wnow,
                 last_hvac_update, is_paused, report, hvac, zed, threads, cpc,
                 response, now>>

\* app.py 181-185
w_track ==
  /\ threads >= 1 /\ wpc = "track"
  /\ tracked_bodies' = TrackAll(tracked_bodies, bodies, wnow)
  /\ wpc' = "ratio"
  /\ UNCHANGED <<configVars, is_lecture_active, lecture_start_time, att_max, att_min,
                 publishedVars, hvacVars, bodies, num, walerts, wnow,
                 last_hvac_update, is_paused, report, hvac, zed, threads, cpc,
                 response, now>>

\* present / registered_students raises on 0 and on None
RatioRaises == registered_students = 0 \/ registered_students = None

\* app.py 188-196
w_ratio ==
  /\ threads >= 1 /\ wpc = "ratio"
  /\ IF RatioRaises
     THEN /\ wpc' = "sleep"
          /\ UNCHANGED attendance
     ELSE /\ attendance' = [status |-> Classify(RatioCount(num, att_max), registered_students),
                            present |-> num, registered |-> registered_students]
          /\ wpc' = "hvac"
  /\ UNCHANGED <<configVars, sessionVars, num_bodies, alerts, hvacVars, bodies, num,
                 walerts, wnow, last_hvac_update, is_paused, report, hvac, zed,
                 threads, cpc, response, now>>

\* app.py 201-208
w_hvac(so, wo) ==
    LET call == predict_hvac_action(num, now, so, wo, sensor_cache, weather_cache)
    IN /\ threads >= 1 /\ wpc = "hvac"
       /\ IF wnow - last_hvac_update >= hvac_update_interval
          THEN /\ sensor_cache' = call.sensor_cache
               /\ weather_cache' = call.weather_cache
               /\ hvac_ret' = call.ret
               /\ sensor_data_from' = call.sensor_cache.timestamp
               /\ hvac' = call.ret.result.suggestion
               /\ last_hvac_update' = wnow
               /\ UNCHANGED callers
          ELSE UNCHANGED <<hvacVars, hvac, last_hvac_update>>
       /\ wpc' = "publish"
       /\ UNCHANGED <<configVars, sessionVars, publishedVars, bodies, num, walerts,
                      wnow, is_paused, report, zed, threads, cpc, response, now>>

\* The same call with its duration: the worker enters predict_hvac_action
\* (app.py 201-203), the HTTP requests made inside it are outstanding for
\* some time (requests.get is given no timeout), and then the call returns.
w_hvac_201 ==
  /\ threads >= 1 /\ wpc = "hvac"
  /\ wpc' = IF wnow - last_hvac_update >= hvac_update_interval THEN "hvac_203"
            ELSE "publish"
  /\ UNCHANGED <<configVars, sessionVars, publishedVars, hvacVars, bodies, num,
                 walerts, wnow, last_hvac_update, is_paused, report, hvac, zed,
                 threads, cpc, response, now>>

\* a second passes while the requests are outstanding
w_hvac_pending ==
  /\ threads >= 1 /\ wpc = "hvac_203"
  /\ TimeLeft
  /\ now' = now + 1
  /\ UNCHANGED <<configVars, sessionVars, publishedVars, workerVars, hvacVars,
                 is_paused, report, hvac, zed, threads, cpc, response>>

\* app.py 203-205: the call returns; the sensor getter read the clock when the
\* call was entered, the weather getter after the sensor requests
w_hvac_203(so, wo) ==
    LET s == get_cached_sensor_data(sensor_cache, wnow, so)
        w == get_cached_weather_data(weather_cache, now, wo)
    IN /\ threads >= 1 /\ wpc = "hvac_203"
       /\ sensor_cache' = s.cache
       /\ weather_cache' = w.cache
       /\ sensor_data_from' = s.cache.timestamp
       /\ hvac_ret' = [called |-> TRUE, issued |-> wnow, occupancy |-> num,
                       result |-> PredictResult(s.value, w.value, num),
                       sensor_fetch |-> s.fetch, weather_fetch |-> w.fetch]
       /\ hvac' = hvac_ret'.result.suggestion
       /\ last_hvac_update' = wnow
       /\ wpc' = "publish"
       /\ UNCHANGED <<configVars, sessionVars, publishedVars, bodies, num, walerts,
                      wnow, is_paused, report, zed, threads, cpc, response, now,
                      callers>>

\* variant: the alerts of the tick are added to the published ones
w_publish_Latching ==
  /\ threads >= 1 /\ wpc = "publish"
  /\ num_bodies' = num
  /\ alerts' = alerts \o walerts
  /\ wpc' = "sleep"
  /\ UNCHANGED <<configVars, sessionVars, attendance, hvacVars, bodies, num, walerts,
                 wnow, last_hvac_update, is_paused, report, hvac, zed, threads,
                 cpc, response, now>>

\* app.py 210-211
w_publish ==
  /\ threads >= 1 /\ wpc = "publish"
  /\ num_bodies' = num
  /\ alerts' = walerts
  /\ wpc' = "sleep"
  /\ UNCHANGED <<configVars, sessionVars, attendance, hvacVars, bodies, num, walerts,
                 wnow, last_hvac_update, is_paused, report, hvac, zed, threads,
                 cpc, response, now>>

\* app.py 219: the iteration ends and 0.1 s of sleep pass
w_sleep ==
  /\ threads >= 1 /\ wpc = "sleep"
  /\ now' = now + 1
  /\ wpc' = "grab"
  /\ bodies' = <<>>
  /\ num' = 0
  /\ walerts' = <<>>
  /\ wnow' = 0
  /\ UNCHANGED <<configVars, sessionVars, publishedVars, hvacVars, last_hvac_update,
                 is_paused, report, hvac, zed, threads, cpc, response>>

\* ------------------------------------------------------------- specifications
\* the steps of the HTTP client's current request and of the worker's tick
ControlStep ==
  \/ start_lecture_304
  \/ start_lecture_305
  \/ start_lecture_306
  \/ start_lecture_307
  \/ stop_lecture_318

WorkerStep ==
  \/ w_att
  \/ w_track
  \/ w_ratio
  \/ w_hvac(Failed, Failed)
  \/ w_publish
  \/ w_sleep

J(ks, c, p, a, r) == [keys |-> ks, covid |-> c, phone |-> p, attendance |-> a,
                      registered_students |-> r]

Quiet == cpc = "idle" /\ wpc = "grab"

\* Spec: the backend is configured by /api/initialize and runs lectures.
\* Every request and every iteration of the worker runs to completion before
\* the next one starts.
InitBodies ==
  { J({}, FALSE, FALSE, FALSE, 0),
    J({"attendance", "registered_students"}, FALSE, FALSE, TRUE, 3),
    J({"covid", "phone", "attendance", "registered_students"}, TRUE, TRUE, TRUE, 10) }

Request ==
  \/ \E data \in InitBodies, cam_ok \in BOOLEAN :
       (cam_ok => CameraCanOpen) /\ initialize(data, cam_ok)
  \/ start_lecture
  \/ stop_lecture

WorkerStart ==
  \/ w_grab_failed
  \/ \E snapshot \in Snapshots : w_grab(snapshot)

Next ==
  \/ Quiet /\ Request
  \/ Quiet /\ WorkerStart
  \/ ControlStep
  \/ WorkerStep

Spec == Init /\ [][Next]_vars

\* SpecConfig: the configuration is also changed by /api/update_features,
\* while the worker sees few bodies and the cloud is unreachable.
ConfigInitBodies ==
  { J({"phone"}, FALSE, FALSE, FALSE, 0),
    J({"attendance", "registered_students"}, FALSE, FALSE, TRUE, 3),
    J({"covid", "attendance", "registered_students"}, TRUE, FALSE, TRUE, 13) }
ConfigUpdateBodies ==
  { J({"attendance"}, FALSE, FALSE, TRUE, 0),
    J({"phone", "attendance"}, FALSE, FALSE, TRUE, 0),
    J({"phone", "attendance"}, FALSE, FALSE, FALSE, 0),
    J({"phone", "registered_students"}, FALSE, FALSE, FALSE, 0),
    J({"phone", "covid", "registered_students"}, FALSE, TRUE, FALSE, 13) }
ConfigSnapshots == { <<Body1, Body2>> }

RequestConfig ==
  \/ \E data \in ConfigInitBodies, cam_ok \in BOOLEAN :
       (cam_ok => CameraCanOpen) /\ initialize(data, cam_ok)
  \/ \E data \in ConfigUpdateBodies : update_features(data)
  \/ start_lecture
  \/ stop_lecture

WorkerStartConfig == \E snapshot \in ConfigSnapshots : w_grab(snapshot)

NextConfig ==
  \/ Quiet /\ RequestConfig
  \/ Quiet /\ WorkerStartConfig
  \/ ControlStep
  \/ WorkerStep

SpecConfig == Init /\ [][NextConfig]_vars

\* SpecRace: the handlers and the worker run as the threads they are; any
\* step of one may fall between two steps of the other.
RaceInitBodies == { J({"attendance", "registered_students"}, FALSE, FALSE, TRUE, 3) }
RaceSnapshots == { <<Body1, Body2>>, <<Body2, Body3>> }

NextRace ==
  \/ \E data \in RaceInitBodies, cam_ok \in BOOLEAN :
       (cam_ok => CameraCanOpen) /\ initialize(data, cam_ok)
  \/ start_lecture
  \/ stop_lecture
  \/ get_status
  \/ ControlStep
  \/ \E snapshot \in RaceSnapshots : w_grab(snapshot)
  \/ WorkerStep

SpecRace == Init /\ [][NextRace]_vars

\* SpecHvac: the advisory module called for varying occupancies, by the 'h'
\* key of the dashboard and by GET /api/hvac, while time passes and the cloud
\* answers or fails.
Occupancies == 0..MaxOccupancy

NextHvac ==
  \/ AdvanceClock(HvacStep, HvacHorizon)
  \/ \E occupancy \in Occupancies, so \in SensorOutcomes, wo \in WeatherOutcomes :
       fetch_and_update_hvac(occupancy, so, wo)
  \/ \E so \in SensorOutcomes, wo \in WeatherOutcomes : get_hvac(so, wo)

SpecHvac == Init /\ [][NextHvac]_vars

\* SpecAlerts: no lecture; the features are switched on and off while the
\* worker evaluates the alert snapshots.
AlertInitBodies == { J({"covid"}, TRUE, FALSE, FALSE, 0) }
AlertUpdateBodies == { J({"phone", "covid"}, c, ph, FALSE, 0) : c \in BOOLEAN, ph \in BOOLEAN }

NextAlerts ==
  \/ Quiet /\ \E data \in AlertInitBodies, cam_ok \in BOOLEAN :
       (cam_ok => CameraCanOpen) /\ initialize(data, cam_ok)
  \/ Quiet /\ \E data \in AlertUpdateBodies : update_features(data)
  \/ Quiet /\ \E snapshot \in AlertSnapshots : w_grab(snapshot)
  \/ w_att
  \/ w_hvac(Failed, Failed)
  \/ w_publish
  \/ w_sleep

SpecAlerts == Init /\ [][NextAlerts]_vars

\* SpecAlive: SpecAlerts with the worker thread scheduled: a step of a tick
\* in progress that stays possible is taken.
SpecAlive ==
  /\ Init /\ [][NextAlerts]_vars
  /\ WF_vars(w_att) /\ WF_vars(w_hvac(Failed, Failed))
  /\ WF_vars(w_publish) /\ WF_vars(w_sleep)

\* SpecStall: the worker of app.py with the duration of its advisory call.
StallInitBodies == { J({"covid"}, TRUE, FALSE, FALSE, 0) }
StallSnapshots == { <<>>, <<Body1, Body2>> }

NextStall ==
  \/ Quiet /\ \E data \in StallInitBodies, cam_ok \in BOOLEAN :
       (cam_ok => CameraCanOpen) /\ initialize(data, cam_ok)
  \/ Quiet /\ \E snapshot \in StallSnapshots : w_grab(snapshot)
  \/ w_att
  \/ w_hvac_201
  \/ w_hvac_pending
  \/ \E so \in SensorOutcomes, wo \in WeatherOutcomes : w_hvac_203(so, wo)
  \/ w_publish
  \/ w_sleep

SpecStall == Init /\ [][NextStall]_vars

\* SpecCache: two 'h' key threads inside predict_hvac_action at once, each
\* statement of get_cached_sensor_data a step of its own.
CacheOutcomes == { Failed, Fetched(SensorData(270, 50)), Fetched(SensorData(220, 50)) }

NextCache ==
  \/ AdvanceClock(HvacStep, HvacHorizon)
  \/ \E th \in HvacThreads, occupancy \in Occupancies : sensor_59(th, occupancy)
  \/ \E th \in HvacThreads : sensor_60(th)
  \/ \E th \in HvacThreads, so \in CacheOutcomes : sensor_64(th, so)
  \/ \E th \in HvacThreads : sensor_70(th)
  \/ \E th \in HvacThreads : sensor_71(th)
  \/ \E th \in HvacThreads : predict_140(th, Failed)

SpecCache == Init /\ [][NextCache]_vars

\* ------------------------------------------------------------------- claims
InTransition == cpc \in {"start_304", "start_305", "start_306", "start_307", "stop_318"}
InObserve == wpc \in {"track", "ratio"}

\* C1: a start_lecture request that arrives while a lecture is active is
\* answered with an error (HTTP 400) and leaves the active flag, the records,
\* att_max, att_min and the lecture start time as they were.
C1_StartWhileActiveRejected ==
  [][(start_lecture /\ is_lecture_active) =>
       /\ response'.status = 400
       /\ cpc' = "idle"
       /\ UNCHANGED <<is_lecture_active, tracked_bodies, att_max, att_min,
                      lecture_start_time>>]_vars

\* C1 witness: the rejection was given in a lecture that holds records
C1_Witness ==
  /\ response = Reply(400, "Lecture already in progress")
  /\ is_lecture_active
  /\ tracked_bodies # <<>>
  /\ att_max > 0

\* C2: a stop_lecture request that arrives while no lecture is active is
\* answered with the error "No active lecture" and leaves the active flag,
\* the records, att_max, att_min and the stored report as they were.
C2_StopWhileInactiveRejected ==
  [][(stop_lecture /\ ~is_lecture_active) =>
       /\ response' = Reply(400, "No active lecture")
       /\ cpc' = "idle"
       /\ UNCHANGED <<is_lecture_active, tracked_bodies, att_max, att_min,
                      report>>]_vars

\* C2 witness: the rejection was given after a lecture that left a report
C2_Witness ==
  /\ response = Reply(400, "No active lecture")
  /\ ~is_lecture_active
  /\ report # <<>>
  /\ tracked_bodies # <<>>

\* C3 (as claimed): no tick runs the attendance update, and reaches the
\* division by registered_students, while registered_students is 0.
C3_NoObserveWithZeroRegistered ==
  InObserve => registered_students # 0

\* C4 (as claimed): while a lecture is active registered_students does not
\* exceed covid_bodies when the covid feature is enabled, nor the lab
\* capacity of 30 otherwise.
C4_RegisteredWithinLimit ==
  is_lecture_active =>
    IF features.covid THEN registered_students <= covid_bodies
    ELSE registered_students <= lab_capacity

\* C5 (as claimed): a start or stop transition in progress and the attendance
\* update of a tick in progress never coexist.
C5_TransitionExcludesObserve ==
  ~(InTransition /\ InObserve)

\* C6 (as claimed): the status a tick publishes in an active lecture is the
\* class of att_max / registered_students, att_max being the running maximum.
C6_StatusFromRunningMax ==
  [][w_ratio /\ ~RatioRaises =>
       attendance'.status = Classify(att_max, registered_students)]_vars

\* C7 (as claimed): in a lecture in which a tick has published Good for the
\* current registered_students (so att_max / registered_students > 2/3), no
\* later tick publishes Fair or Poor.
C7_GoodStaysGood ==
  [][(/\ w_ratio /\ ~RatioRaises
      /\ is_lecture_active
      /\ attendance.status = "Good"
      /\ attendance.registered = registered_students
      /\ Classify(att_max, registered_students) = "Good") =>
       attendance'.status = "Good"]_vars

\* C8: the report stored by stop_lecture holds att_max, att_min and
\* registered_students and then one line per record, in the order in which
\* the bodies were first seen, with duration last - first.
C8_StopReport ==
  [][stop_lecture_318 =>
       /\ Len(report') = 4 + Len(tracked_bodies)
       /\ report'[2] = Line("Max attendees", None, att_max)
       /\ report'[3] = Line("Min attendees", None, att_min)
       /\ report'[4] = Line("Registered Students", None, registered_students)
       /\ \A i \in 1..Len(tracked_bodies) :
            report'[4 + i] = Line("Body", tracked_bodies[i].id,
                                  tracked_bodies[i].last - tracked_bodies[i].first)
       /\ \A i, j \in 1..Len(tracked_bodies) :
            i < j => /\ tracked_bodies[i].first <= tracked_bodies[j].first
                     /\ tracked_bodies[i].id # tracked_bodies[j].id]_vars

\* C8 witness: the report of the lecture started with 10 registered students
\* in which bodies {1,2}, {1,2,3}, {2,3} were seen one second apart
C8_Witness ==
  /\ ~is_lecture_active /\ cpc = "idle"
  /\ Len(report) = 7
  /\ report[2].v = 3 /\ report[3].v = 2 /\ report[4].v = 10
  /\ report[5] = Line("Body", 1, 1)
  /\ report[6] = Line("Body", 2, 2)
  /\ report[7] = Line("Body", 3, 1)

\* C9 (as claimed): a tick runs the attendance update iff a lecture is
\* active, and a tick processed while none is active publishes N/A.
C9_ObserveIffActive ==
  [][w_att => /\ (wpc' = "track") <=> is_lecture_active
              /\ ~is_lecture_active => attendance' = NA]_vars

SensorFresh == now - sensor_cache.timestamp < CACHE_DURATION /\ sensor_cache.data # <<>>
WeatherFresh == now - weather_cache.timestamp < CACHE_DURATION /\ weather_cache.data # <<>>
PredictCall == \E occupancy \in Occupancies, so \in SensorOutcomes, wo \in WeatherOutcomes :
                 fetch_and_update_hvac(occupancy, so, wo)

HvacCall(occupancy, so, wo) ==
  \/ fetch_and_update_hvac(occupancy, so, wo)
  \/ occupancy = num_bodies /\ get_hvac(so, wo)

\* the refresh of a call made now fails: the prediction raises, or the call
\* attempts a fetch and every fetch it attempts fails
RefreshFails(so, wo) ==
  LET s == get_cached_sensor_data(sensor_cache, now, so)
      w == get_cached_weather_data(weather_cache, now, wo)
  IN \/ PredictRaises(s.value)
     \/ /\ s.fetch \/ w.fetch
        /\ s.fetch => ~so.ok
        /\ w.fetch => ~wo.ok

\* C11 (as claimed): a call whose refresh fails, made for the occupancy of a
\* previous call that returned a good advisory computed from a fetched
\* reading, returns that advisory again, and the suggestion held for
\* publication stays the one of that advisory.
C11_LastGoodOnFailure ==
  [][\A occupancy \in Occupancies, so \in SensorOutcomes, wo \in WeatherOutcomes :
       (/\ HvacCall(occupancy, so, wo)
        /\ RefreshFails(so, wo)
        /\ hvac_ret.called
        /\ hvac_ret.result.action # "ERROR"
        /\ hvac_ret.result.sensor_data = sensor_cache.data
        /\ sensor_cache.data # <<>>
        /\ hvac_ret.occupancy = occupancy) =>
         /\ hvac_ret'.result = hvac_ret.result
         /\ hvac' = hvac_ret.result.suggestion]_vars

\* C12 (as claimed): the first call, made with nothing cached and both fetches
\* failing, returns the fallback advisory whose action label is UNKNOWN.
C12_UnknownOnFirstFailure ==
  [][\A occupancy \in Occupancies :
       (/\ HvacCall(occupancy, Failed, Failed)
        /\ ~hvac_ret.called
        /\ sensor_cache = EmptyCache
        /\ weather_cache = EmptyCache) =>
         hvac_ret'.result.action = "UNKNOWN"]_vars

\* C13 (as claimed): whenever a caller is about to read the sensor cache, the
\* data in it and its timestamp were stored by the same refresh.
C13_NoTornCache ==
  \A th \in HvacThreads :
    (callers[th].pc = "sensor_60" /\ sensor_cache.data # <<>>) =>
      sensor_cache.timestamp = sensor_data_from

\* C14 (as claimed): no step of a tick of the worker calls
\* predict_hvac_action; the advisory and the record of the last call change
\* only in a request.
C14_TickNeverComputesAdvisory ==
  [][WorkerStep => UNCHANGED <<hvac_ret, hvac, sensor_cache, weather_cache>>]_vars

\* C15 (as claimed): the worker is never inside the advisory call, waiting
\* for its requests, while time passes and its tick stays unfinished.
C15_WorkerNeverBlocked ==
  ~(wpc = "hvac_203" /\ now > wnow)

\* a frame of the alert snapshots is grabbed and evaluated
GrabStep == \E snapshot \in AlertSnapshots : w_grab(snapshot)
CountKind(al, kind) == Cardinality({ i \in 1..Len(al) : al[i].kind = kind })
FarApart(bl) == \A i, j \in 1..Len(bl) :
                  i # j => Dist2(bl[i].pos, bl[j].pos) >= min_distance_dm * min_distance_dm
NearPairs(bl) == { pr \in (1..Len(bl)) \X (1..Len(bl)) :
                     /\ pr[1] < pr[2]
                     /\ Dist2(bl[pr[1]].pos, bl[pr[2]].pos) < min_distance_dm * min_distance_dm }

\* C16: with the covid feature on, the alerts of a snapshot hold exactly one
\* Occupancy alert if it has more than covid_bodies bodies and none otherwise,
\* whatever the order of the bodies; covid_bodies + 1 bodies that are pairwise
\* far apart give the single alert "More than 12 bodies detected!".
C16_OccupancyAlert ==
  [][(GrabStep /\ features.covid /\ wpc' = "att") =>
       /\ CountKind(walerts', "Occupancy") = (IF Len(bodies') > covid_bodies THEN 1 ELSE 0)
       /\ (Len(bodies') > covid_bodies => walerts'[1] = OccupancyAlert)
       /\ (Len(bodies') = covid_bodies + 1 /\ FarApart(bodies')) =>
            CovidAlerts(Reverse(bodies')) = <<OccupancyAlert>>
       /\ (Len(bodies') = covid_bodies + 1 /\ FarApart(bodies') /\ ~features.phone) =>
            walerts' = <<OccupancyAlert>>]_vars

\* C16 witness: the 13 far-apart bodies, last one first, were published with
\* the occupancy alert alone
C16_Witness ==
  /\ wpc = "sleep"
  /\ bodies = Reverse(Far(covid_bodies + 1))
  /\ num_bodies = covid_bodies + 1
  /\ alerts = <<OccupancyAlert>>

\* C17: with the covid feature on, the alerts of a snapshot hold one Proximity
\* alert per unordered pair of bodies less than min_distance apart, however
\* many bodies and pairs there are; a snapshot of at most covid_bodies bodies
\* that are pairwise at least min_distance apart gives no alert.
C17_ProximityPairs ==
  [][(GrabStep /\ features.covid /\ wpc' = "att") =>
       /\ CountKind(walerts', "Proximity") = Cardinality(NearPairs(bodies'))
       /\ (Len(bodies') <= covid_bodies /\ FarApart(bodies') /\ ~features.phone) =>
            walerts' = <<>>]_vars

\* C17 witness: of the three bodies placed in space, the two pairs closer
\* than 1 m (one of them not neighbours in the list) were published, the
\* pair exactly 1 m apart was not
C17_Witness ==
  /\ wpc = "sleep"
  /\ bodies = Space3
  /\ features.covid
  /\ alerts = <<ProximityAlert, ProximityAlert>>

\* C18 (as claimed): with the phone feature on, a tick yields one Behavioral
\* alert if the first body of the snapshot has two keypoints less than the
\* threshold apart in y, and none otherwise.
C18_OnlyFirstEntity ==
  [][(GrabStep /\ features.phone /\ wpc' = "att") =>
       CountKind(walerts', "Behavioral") =
         (IF bodies' # <<>> /\ BodyPhoneAlert(bodies'[1]) THEN 1 ELSE 0)]_vars

\* C19 (as claimed): with the phone feature on, the evaluation of a snapshot
\* never fails, and the first body gets its alert iff its first two keypoints
\* are less than the threshold apart in y, whatever their shape.
C19_BothKeypointShapes ==
  [][(GrabStep /\ features.phone) =>
       /\ wpc' = "att"
       /\ bodies' # <<>> =>
            (BodyPhoneAlert(bodies'[1]) <=>
               \E k \in 1..Len(walerts') : walerts'[k] = PhoneAlert(bodies'[1].id))]_vars

\* C20 (as claimed): a tick that retrieved bodies goes on to the attendance
\* update and to publishing, with the Proximity alerts of its bodies, also
\* when one body has invalid keypoints.
C20_MalformedEntityIsolated ==
  [][(GrabStep /\ bodies' # <<>>) =>
       /\ wpc' = "att"
       /\ features.covid => CountKind(walerts', "Proximity") >= 1 \/ FarApart(bodies')]_vars

\* the tick in progress raised while its frame was evaluated
TickRaised == bodies # <<>> /\ FrameRaises(bodies, features) /\ wpc \notin {"grab", "att"}
\* the tick in progress made the advisory call and its fetches failed
TickFetchFailed ==
  /\ wpc = "publish" /\ last_hvac_update = wnow
  /\ hvac_ret.sensor_fetch /\ hvac_ret.weather_fetch
  /\ sensor_cache.data = <<>> /\ weather_cache.data = <<>>

\* C21: a tick whose processing raised, or whose advisory fetch failed, is
\* followed by the worker standing at the head of its loop again, ready for
\* the next frame.
C21_WorkerGoesOn ==
  (TickRaised \/ TickFetchFailed) ~> (wpc = "grab")

\* C21 witness: the tick at StartTime raised (it published nothing and did not
\* reach the advisory call), and the tick after it was processed and published
C21_Witness ==
  /\ wpc = "sleep"
  /\ now = StartTime + 1 /\ wnow = now
  /\ last_hvac_update = wnow
  /\ features.phone
  /\ num_bodies = 2 /\ bodies = <<Body1, Body2>>
  /\ alerts = FrameAlerts(bodies, features)

\* C22 (as claimed): the state returned by GET /api/status is the state of one
\* completed tick: the count in its attendance summary is its entity count.
C22_StatusFromOneTick ==
  [][get_status => (attendance # NA => attendance.present = num_bodies)]_vars

KindRank(kind) == CASE kind = "Occupancy" -> 1 [] kind = "Proximity" -> 2
                    [] kind = "Behavioral" -> 3
InKindOrder(al) == \A i, j \in 1..Len(al) : i < j => KindRank(al[i].kind) <= KindRank(al[j].kind)

\* C23: the alerts published by a tick are exactly the alerts of that tick's
\* snapshot, Occupancy first, then Proximity, then Behavioral; nothing of the
\* list published before remains.
C23_AlertsOfThisTickOnly ==
  [][w_publish => /\ alerts' = FrameAlerts(bodies, features)
                  /\ InKindOrder(alerts')
                  /\ num_bodies' = Len(bodies)]_vars
C23_Witness ==
  /\ wpc = "sleep" /\ bodies = CrowdPhone
  /\ features.covid /\ features.phone
  /\ num_bodies = covid_bodies + 1
  /\ alerts = <<OccupancyAlert, ProximityAlert, ProximityAlert, ProximityAlert,
                PhoneAlert(1)>>

\* C24: a tick processed with the covid feature off publishes no Occupancy and
\* no Proximity alert, and a tick processed with the phone feature off
\* publishes no Behavioral alert, whatever the snapshot.
C24_DisabledEvaluatorSilent ==
  [][w_publish =>
       /\ (~features.covid => CountKind(alerts', "Occupancy") = 0
                               /\ CountKind(alerts', "Proximity") = 0)
       /\ (~features.phone => CountKind(alerts', "Behavioral") = 0)]_vars
C24_Witness ==
  /\ wpc = "sleep" /\ bodies = CrowdPhone
  /\ ~features.covid /\ features.phone
  /\ num_bodies = covid_bodies + 1
  /\ alerts = <<PhoneAlert(1)>>

\* C25: a tick whose grab fails is skipped: from the failed grab to the end
\* of the tick the published count, alerts and attendance summary, the
\* attendance records and the observed maximum and minimum do not change.
C25_FailedGrabSkipsTick ==
  [][(w_grab_failed \/ (w_sleep /\ wnow = 0)) =>
       UNCHANGED <<num_bodies, alerts, attendance, tracked_bodies, att_max, att_min>>]_vars
C25_Witness ==
  /\ wpc = "sleep" /\ wnow = 0
  /\ is_lecture_active /\ tracked_bodies # <<>>
  /\ num_bodies > 0 /\ att_max > 0 /\ attendance # NA

\* --------------------------------------------------- the command-line scripts
\* cpa.py and phone+covid.py are run from a shell: the flags of the command
\* line are kept in features (opt), the script that runs in cpc, the frame
\* counter in wnow, and the alerts printed for the frame in walerts.
LegacyPhoneAlert == [kind |-> "Behavioral", arg |-> None]

\* cpa.py 179-187, phone+covid.py 170-178: both keypoints are read by index
\* or, when that raises, both by attribute; otherwise they are None
LegacyReadable(kp) ==
  \/ kp[1].shape \in {"idx", "both"} /\ kp[2].shape \in {"idx", "both"}
  \/ kp[1].shape \in {"attr", "both"} /\ kp[2].shape \in {"attr", "both"}

\* cpa.py 172-191, phone+covid.py 161-183: the first body only
LegacyPhoneAlerts(bl, threshold) ==
  IF /\ bl # <<>>
     /\ Len(bl[1].kp) > 1
     /\ LegacyReadable(bl[1].kp)
     /\ Abs(bl[1].kp[1].y - bl[1].kp[2].y) < threshold
  THEN <<LegacyPhoneAlert>> ELSE <<>>

\* cpa.py 158-167 and 171-191, with the covid_bodies handed to main()
cpa_alerts(bl, f, limit) ==
  (IF f.covid
   THEN (IF Len(bl) > limit THEN <<OccupancyAlert>> ELSE <<>>)
        \o [k \in 1..Cardinality(ClosePairs(bl)) |-> ProximityAlert]
   ELSE <<>>)
  \o (IF f.phone THEN LegacyPhoneAlerts(bl, cpa_phone_threshold) ELSE <<>>)

\* phone+covid.py 145-156 and 160-183
phone_covid_alerts(bl, f) ==
  (IF f.covid
   THEN (IF Len(bl) > phone_covid_min_bodies THEN <<OccupancyAlert>> ELSE <<>>)
        \o [k \in 1..Cardinality(ClosePairs(bl)) |-> ProximityAlert]
   ELSE <<>>)
  \o (IF f.phone THEN LegacyPhoneAlerts(bl, phone_covid_threshold) ELSE <<>>)

\* cpa.py 246-265: whether the registered count typed in is refused
cpa_rejects(f, reg) ==
  /\ f.attendance
  /\ IF f.covid THEN reg > cpa_covid_bodies ELSE reg > cpa_lab_capacity

\* cpa.py 236-271: the command line is parsed, the registered count is asked
\* for and checked, and main() opens the camera
cpa_start(f, reg) ==
  /\ cpc = "idle" /\ zed = "none" /\ threads = 0
  /\ features' = f
  /\ registered_students' = IF f.attendance THEN reg ELSE None
  /\ IF cpa_rejects(f, reg)
     THEN /\ cpc' = "exit"
          /\ response' = Reply(1, IF f.covid
                                  THEN "Maximum number of registered students exceeded!"
                                  ELSE "Lab capacity exceeded!")
          /\ UNCHANGED zed
     ELSE /\ cpc' = "cpa"
          /\ zed' = "open"
          /\ UNCHANGED response
  /\ UNCHANGED <<sessionVars, publishedVars, workerVars, hvacVars, is_paused,
                 report, hvac, threads, now>>

\* cpa.py 149-207: one frame; the quotient of the attendance block raises on
\* a registered count of 0 and nothing catches it
cpa_frame(snapshot) ==
  /\ cpc = "cpa" /\ wnow < MaxFrames
  /\ bodies' = snapshot
  /\ num' = Len(snapshot)
  /\ wnow' = wnow + 1
  /\ walerts' = cpa_alerts(snapshot, features, cpa_covid_bodies)
  /\ IF features.attendance /\ registered_students # None
     THEN IF registered_students = 0
          THEN /\ cpc' = "exit"
               /\ response' = Reply(1, "ZeroDivisionError")
               /\ UNCHANGED attendance
          ELSE /\ attendance' = [status |-> Classify(Len(snapshot), registered_students),
                                 present |-> Len(snapshot),
                                 registered |-> registered_students]
               /\ UNCHANGED <<cpc, response>>
     ELSE UNCHANGED <<attendance, cpc, response>>
  /\ UNCHANGED <<configVars, sessionVars, num_bodies, alerts, hvacVars, wpc,
                 last_hvac_update, is_paused, report, hvac, zed, threads, now>>

\* phone+covid.py 209-225: the command line is parsed and main() opens the camera
phone_covid_start(f) ==
  /\ cpc = "idle" /\ zed = "none" /\ threads = 0
  /\ ~f.attendance
  /\ features' = f
  /\ cpc' = "phone+covid"
  /\ zed' = "open"
  /\ UNCHANGED <<registered_students, sessionVars, publishedVars, workerVars,
                 hvacVars, is_paused, report, hvac, threads, response, now>>

\* phone+covid.py 136-183: one frame
phone_covid_frame(snapshot) ==
  /\ cpc = "phone+covid" /\ wnow < MaxFrames
  /\ bodies' = snapshot
  /\ num' = Len(snapshot)
  /\ wnow' = wnow + 1
  /\ walerts' = phone_covid_alerts(snapshot, features)
  /\ UNCHANGED <<configVars, sessionVars, publishedVars, hvacVars, wpc,
                 last_hvac_update, is_paused, report, hvac, zed, threads, cpc,
                 response, now>>

\* SpecLegacy: one of the two scripts is started with some flags and a typed
\* registered count, and processes frames.
Flags == [covid : BOOLEAN, phone : BOOLEAN, attendance : BOOLEAN]
TypedCounts == { 0, 3, documented_covid_bodies, documented_covid_bodies + 1,
                 cpa_covid_bodies, cpa_covid_bodies + 1,
                 cpa_lab_capacity, cpa_lab_capacity + 1 }
LegacySnapshots ==
  { <<>>, <<Body3>>, <<Body1, Body2>>, <<BodyAttrNear>>,
    Far(documented_covid_bodies), Far(documented_covid_bodies + 1),
    Far(cpa_covid_bodies), Far(cpa_covid_bodies + 1) }

NextLegacy ==
  \/ \E f \in Flags, reg \in TypedCounts : cpa_start(f, reg)
  \/ \E snapshot \in LegacySnapshots : cpa_frame(snapshot)
  \/ \E f \in Flags : phone_covid_start(f)
  \/ \E snapshot \in LegacySnapshots : phone_covid_frame(snapshot)

SpecLegacy == Init /\ [][NextLegacy]_vars

LegacyFrameDone == cpc \in {"cpa", "phone+covid"} /\ wnow > 0
HasOccupancy(al) == \E i \in 1..Len(al) : al[i] = OccupancyAlert

\* C26 (as claimed): in the command-line scripts run with the covid flag, the
\* alert "More than 12 bodies detected in the room" is printed for a frame
\* iff the frame holds more than 12 bodies.
C26_LegacyOccupancyAlert ==
  (LegacyFrameDone /\ features.covid) =>
     (HasOccupancy(walerts) <=> Len(bodies) > documented_covid_bodies)

\* C27 (as claimed): cpa.py never tracks with the covid and attendance flags
\* and more than 12 registered students, nor with the attendance flag alone
\* and more than 30.
C27_RegisteredCountChecked ==
  (cpc = "cpa" /\ features.attendance) =>
     IF features.covid THEN registered_students <= documented_covid_bodies
     ELSE registered_students <= cpa_lab_capacity

\* the lecture goes on over the step, and no request is half way
SessionGoesOn ==
  /\ is_lecture_active /\ is_lecture_active'
  /\ cpc = "idle" /\ cpc' = "idle"

\* C28: a start_lecture that succeeds leaves no record, att_max 0 and att_min
\* +infinity, also after an earlier lecture was stopped; every record of the
\* lecture in progress was first seen in this lecture.
C28_StartResets ==
  /\ [][start_lecture_307 => /\ tracked_bodies' = <<>>
                             /\ att_max' = 0
                             /\ att_min' = Infinity
                             /\ is_lecture_active']_vars
  /\ []((is_lecture_active /\ cpc = "idle") =>
          \A i \in 1..Len(tracked_bodies) : tracked_bodies[i].first >= lecture_start_time)
C28_Witness ==
  /\ response = Reply(200, "lecture started") /\ cpc = "idle"
  /\ is_lecture_active /\ lecture_start_time > StartTime
  /\ Len(report) > 4 /\ report[2].v > 0
  /\ tracked_bodies = <<>> /\ att_max = 0 /\ att_min = Infinity

\* C29: a tick that runs the attendance update sets att_max to the larger of
\* att_max and the number of bodies, and att_min to the smaller of att_min and
\* that number; while a lecture goes on att_max never decreases and att_min
\* never increases.
C29_RangeWidens ==
  /\ [][(w_att /\ Observes) => /\ att_max' = Max(att_max, Len(bodies))
                                /\ att_min' = Min(att_min, Len(bodies))]_vars
  /\ [][SessionGoesOn => att_max' >= att_max /\ att_min' <= att_min]_vars
C29_Witness ==
  /\ is_lecture_active /\ wpc = "track"
  /\ Len(bodies) = 2 /\ att_max = 3 /\ att_min = 0

SeenNow(bid) == \E k \in 1..Len(bodies) : bodies[k].id = bid

\* C30: the tracking step of a tick keeps every record with its id and first
\* time and stamps the tick's time as last on those whose body is in the
\* snapshot; it appends one record with first = last = the tick's time for
\* each body seen for the first time; while a lecture goes on no record
\* disappears or changes its first time; first <= last in every record.
C30_RecordLifecycle ==
  /\ [][w_track =>
         /\ Len(tracked_bodies') >= Len(tracked_bodies)
         /\ \A i \in 1..Len(tracked_bodies) :
              /\ tracked_bodies'[i].id = tracked_bodies[i].id
              /\ tracked_bodies'[i].first = tracked_bodies[i].first
              /\ tracked_bodies'[i].last = IF SeenNow(tracked_bodies[i].id) THEN wnow
                                           ELSE tracked_bodies[i].last
         /\ \A i \in (Len(tracked_bodies) + 1)..Len(tracked_bodies') :
              /\ SeenNow(tracked_bodies'[i].id)
              /\ ~Tracked(tracked_bodies, tracked_bodies'[i].id)
              /\ tracked_bodies'[i].first = wnow /\ tracked_bodies'[i].last = wnow
         /\ \A k \in 1..Len(bodies) : Tracked(tracked_bodies', bodies[k].id)
         /\ \A i, j \in 1..Len(tracked_bodies') :
              tracked_bodies'[i].id = tracked_bodies'[j].id => i = j]_vars
  /\ [][SessionGoesOn =>
         \A i \in 1..Len(tracked_bodies) :
           /\ i <= Len(tracked_bodies')
           /\ tracked_bodies'[i].id = tracked_bodies[i].id
           /\ tracked_bodies'[i].first = tracked_bodies[i].first]_vars
  /\ [](\A i \in 1..Len(tracked_bodies) : tracked_bodies[i].first <= tracked_bodies[i].last)
C30_Witness ==
  /\ is_lecture_active /\ wpc = "ratio"
  /\ tracked_bodies = << [id |-> 1, first |-> StartTime, last |-> StartTime + 2],
                         [id |-> 2, first |-> StartTime, last |-> StartTime + 2],
                         [id |-> 3, first |-> StartTime + 1, last |-> StartTime + 1] >>

\* C31: once stop_lecture has returned and until start_lecture is called, no
\* step of a tick changes the records, att_max or att_min.
C31_StoppedSessionFrozen ==
  [][(~is_lecture_active /\ cpc = "idle" /\ (WorkerStart \/ WorkerStep)) =>
       UNCHANGED <<tracked_bodies, att_max, att_min>>]_vars
C31_Witness ==
  /\ ~is_lecture_active /\ response = Reply(200, "lecture stopped")
  /\ wpc = "sleep" /\ num_bodies = 3 /\ bodies = <<Body1, Body2, Body3>>
  /\ att_max = 2 /\ att_min = 2 /\ Len(tracked_bodies) = 2

\* C32: over one call of predict_hvac_action with fetch outcomes so and wo,
\* the sensor cache afterwards depends on the sensor cache before, the time
\* and so only, and the weather cache on the weather cache before, the time
\* and wo only: each is left as it is when its own data is younger than
\* CACHE_DURATION or its own fetch fails, and is replaced by its own reading
\* stamped with the time of the call otherwise.
C32_CachesIndependent ==
  [][\A occupancy \in Occupancies, so \in SensorOutcomes, wo \in WeatherOutcomes :
       (hvac_ret'.occupancy = occupancy /\ now' = now /\ HvacCall(occupancy, so, wo)) =>
         /\ sensor_cache' = IF SensorFresh \/ ~so.ok THEN sensor_cache
                            ELSE [timestamp |-> now, data |-> so.data]
         /\ weather_cache' = IF WeatherFresh \/ ~wo.ok THEN weather_cache
                             ELSE [timestamp |-> now, data |-> wo.data]
         /\ hvac_ret'.sensor_fetch = ~SensorFresh
         /\ hvac_ret'.weather_fetch = ~WeatherFresh]_vars
\* the sensor cache was refreshed by a call that the weather cache, filled
\* HvacStep seconds earlier, served without a fetch
C32_Witness ==
  /\ hvac_ret.called /\ hvac_ret.sensor_fetch /\ ~hvac_ret.weather_fetch
  /\ sensor_cache.data # <<>> /\ sensor_cache.timestamp = now
  /\ weather_cache.data # <<>> /\ weather_cache.timestamp = now - HvacStep

\* C38: a sensor or weather fetch that fails leaves its cache as it was, and
\* the call hands on the data cached before or the defaults; the next call
\* finds the cache no younger than this one did and fetches again unless the
\* cached data is still within CACHE_DURATION; a fetch that succeeds stores
\* the reading with the time of the call, and a call made while the stored
\* reading is younger than CACHE_DURATION fetches nothing.
C38_NoNegativeCaching ==
  [][\A occupancy \in Occupancies, so \in SensorOutcomes, wo \in WeatherOutcomes :
       (hvac_ret'.occupancy = occupancy /\ now' = now /\ HvacCall(occupancy, so, wo)) =>
         /\ (~SensorFresh /\ ~so.ok) =>
              /\ hvac_ret'.sensor_fetch
              /\ sensor_cache' = sensor_cache
              /\ hvac_ret'.result.sensor_data \in
                   { IF sensor_cache.data # <<>> THEN sensor_cache.data
                     ELSE <<SensorDefault>>, <<>> }
         /\ (~WeatherFresh /\ ~wo.ok) =>
              /\ hvac_ret'.weather_fetch
              /\ weather_cache' = weather_cache
              /\ (hvac_ret'.result.action # "ERROR" =>
                    hvac_ret'.result.external_temp =
                      (IF weather_cache.data # <<>> THEN weather_cache.data[1]
                       ELSE WeatherDefault).temp)
         /\ (~SensorFresh /\ so.ok) =>
              sensor_cache' = [timestamp |-> now, data |-> so.data]
         /\ (~WeatherFresh /\ wo.ok) =>
              weather_cache' = [timestamp |-> now, data |-> wo.data]
         /\ SensorFresh => ~hvac_ret'.sensor_fetch
         /\ WeatherFresh => ~hvac_ret'.weather_fetch]_vars
\* a call found the sensor data expired, its fetch failed, and it handed on
\* the data stored 2 * HvacStep seconds earlier
C38_Witness ==
  /\ hvac_ret.called /\ hvac_ret.sensor_fetch
  /\ sensor_cache.data # <<>> /\ now - sensor_cache.timestamp >= CACHE_DURATION
  /\ hvac_ret.result.sensor_data = sensor_cache.data
  /\ sensor_data_from = sensor_cache.timestamp

\* C33 (as claimed): a request that finishes never puts another advisory in
\* the place of the advisory of a request that was issued after it.
C33_LaterRequestWins ==
  [][\A th \in HvacThreads :
       predict_140(th, Failed) =>
         ((hvac_ret.called /\ hvac_ret.issued > callers[th].current_time) =>
            hvac' = hvac)]_vars

\* SpecWorkers: /api/initialize is called again while a worker runs, and the
\* camera opens whenever the device lets it.
WorkersInitBodies == { J({"covid"}, TRUE, FALSE, FALSE, 0),
                       J({"attendance", "registered_students"}, FALSE, FALSE, TRUE, 3) }
WorkersSnapshots == { <<Body1, Body2>> }

NextWorkers ==
  \/ /\ Quiet /\ threads < MaxWorkers
     /\ \E data \in WorkersInitBodies, cam_ok \in BOOLEAN : initialize(data, cam_ok)
  \/ Quiet /\ start_lecture
  \/ Quiet /\ stop_lecture
  \/ Quiet /\ w_grab_failed
  \/ Quiet /\ \E snapshot \in WorkersSnapshots : w_grab(snapshot)
  \/ ControlStep
  \/ WorkerStep

SpecWorkers == Init /\ [][NextWorkers]_vars

\* C34 (as claimed): no sequence of /api/initialize requests leaves more than
\* one process_frame thread running.
C34_SingleWorker == threads <= 1

InitStep == \E data \in ConfigInitBodies, cam_ok \in BOOLEAN : initialize(data, cam_ok)

\* C35 (as claimed): an /api/initialize request answered with 400 leaves the
\* feature flags and registered_students as they were and starts no worker.
C35_RejectedInitChangesNothing ==
  [][(InitStep /\ response'.status = 400) =>
       UNCHANGED <<features, registered_students, threads, zed>>]_vars

\* C36: in a lecture in which a tick has run its attendance update, att_min
\* is at most att_max and there are at least att_max records (the ids of
\* one snapshot being distinct); the state between the update of the range
\* and the update of the records of one tick apart.
C36_RangeAndRecords ==
  (is_lecture_active /\ cpc = "idle" /\ att_min # Infinity /\ wpc # "track") =>
     /\ att_min <= att_max
     /\ Len(tracked_bodies) >= att_max
C36_Witness ==
  /\ is_lecture_active /\ cpc = "idle" /\ wpc = "grab"
  /\ att_max = 3 /\ att_min = 0 /\ Len(tracked_bodies) = 3

\* SpecPause: the worker is paused and resumed by /api/pause and /api/resume
\* between its ticks, during and outside lectures.
PauseInitBodies == { J({"covid", "attendance", "registered_students"}, TRUE, FALSE, TRUE, 3) }
PauseSnapshots == { <<>>, <<Body1, Body2>> }

PauseWorkerStart ==
  \/ w_paused
  \/ w_grab_failed
  \/ \E snapshot \in PauseSnapshots : w_grab(snapshot)

RequestPause ==
  \/ \E data \in PauseInitBodies, cam_ok \in BOOLEAN :
       (cam_ok => CameraCanOpen) /\ initialize(data, cam_ok)
  \/ pause
  \/ resume
  \/ start_lecture
  \/ stop_lecture

NextPause ==
  \/ Quiet /\ RequestPause
  \/ Quiet /\ PauseWorkerStart
  \/ ControlStep
  \/ WorkerStep

SpecPause == Init /\ [][NextPause]_vars

====
